---- MODULE Spec2Model ----
(***************************************************************************)
(* The alert dashboard of static/js/app.js as a state machine.             *)
(*                                                                         *)
(* JavaScript values are encoded as follows.                               *)
(*   - an array is the record [array |-> <<...>>], a number that stands    *)
(*     where an array was expected is [number |-> n], null is Null;        *)
(*   - an alert record is [created_at, hostname, metric, value];           *)
(*   - a created_at string is the sequence of its space-separated pieces:  *)
(*     <<d, t>> is "d t" (day d, second t of the day), <<n>> is the same   *)
(*     instant written without a space ("dTt", n seconds in all), and      *)
(*     Undefined (<<>>) is a missing field;                                *)
(*   - the Chinese literals of the source are transliterated, since the    *)
(*     parser reads ASCII strings only: "jinggao" (warning), "tishi"       *)
(*     (info), "zhengchang" (normal), and so on.                           *)
(* Every event handler runs to completion: one action is one synchronous   *)
(* stretch of a handler, from its start or an await to the next await or   *)
(* its end, with the catch block included.                                 *)
(***************************************************************************)
EXTENDS Integers, Sequences, FiniteSets, TLC

VARIABLES
    alertsData,      \* app.js:2  the global collection
    cpuTrendChart,   \* app.js:4  handle of the CPU trend chart, or Null
    alertTypeChart,  \* app.js:5  handle of the alert type chart, or Null
    tbody,           \* rows of #alerts-table-body
    metrics,         \* #total-alerts, #error-hosts, #normal-count, #system-status
    canvas,          \* live Chart instances of each canvas, oldest first
    searchForm,      \* fields of #search-form
    alertForm,       \* fields of #alert-form
    pending,         \* awaits not yet settled, in the order of their fetch calls
    notices,         \* window.alert calls of the handler stretch that ran last
    fetched,         \* fetch calls of the handler stretch that ran last
    last,            \* the handler stretch that ran last and how it ended
    steps,           \* what the handler stretch that ran last did, in order
    loaded           \* DOMContentLoaded has fired

vars == <<alertsData, cpuTrendChart, alertTypeChart, tbody, metrics, canvas,
          searchForm, alertForm, pending, notices, fetched, last, steps,
          loaded>>

----------------------------------------------------------------------------
(* JavaScript values *)

Null == [null |-> TRUE]

Undefined == <<>>

Arr(s) == [array |-> s]

Num(n) == [number |-> n]

IsArray(v) == "array" \in DOMAIN v

\* ToBoolean: null and 0 are falsy, every array (the empty one too) is truthy
Truthy(v) == /\ v # Null
             /\ ~("number" \in DOMAIN v /\ v.number = 0)

Min(a, b) == IF a < b THEN a ELSE b

Max(a, b) == IF a > b THEN a ELSE b

\* Array.prototype.slice(-n): the last n elements, all of them when fewer
SliceLast(s, n) == SubSeq(s, Max(1, Len(s) - n + 1), Len(s))

\* String.prototype.trim on a sequence of one-character strings
RECURSIVE TrimStart(_)
TrimStart(s) == IF s # <<>> /\ Head(s) = " " THEN TrimStart(Tail(s)) ELSE s

RECURSIVE TrimEnd(_)
TrimEnd(s) == IF s # <<>> /\ s[Len(s)] = " "
              THEN TrimEnd(SubSeq(s, 1, Len(s) - 1))
              ELSE s

Trim(s) == TrimEnd(TrimStart(s))

----------------------------------------------------------------------------
(* formatMetricName, app.js:272-281 *)

KnownMetrics == {"cpu_usage", "mem_usage", "disk_usage", "network_in", "network_out"}

MetricLabel(metric) ==
    CASE metric = "cpu_usage"   -> "CPU shiyonglv"
      [] metric = "mem_usage"   -> "neicun shiyonglv"
      [] metric = "disk_usage"  -> "cipan shiyonglv"
      [] metric = "network_in"  -> "ruzhan liuliang"
      [] metric = "network_out" -> "chuzhan liuliang"

formatMetricName(metric) ==
    IF metric \in KnownMetrics THEN MetricLabel(metric) ELSE metric

----------------------------------------------------------------------------
(* renderAlertsTable, app.js:83-109 *)

\* a record whose value is above this is an anomaly (app.js:96, 116, 119)
AnomalyThreshold == 80

\* alert.value: undefined for a record that has no such key
HasValue(a) == "value" \in DOMAIN a

Value(a) == IF HasValue(a) THEN a.value ELSE Undefined

\* a variant that counts the threshold itself as an anomaly
IsAnomalyInclusive(a) == HasValue(a) /\ a.value >= AnomalyThreshold

\* undefined compares false with every number, both ways
IsAnomaly(a) == HasValue(a) /\ a.value > AnomalyThreshold

\* the single row shown for an empty collection (app.js:88)
NoDataRow == [colspan |-> 5, text |-> "zanwu gaojing shuju"]

statusLabel(a) == IF IsAnomaly(a) THEN "jinggao" ELSE "tishi"

TableRow(a) ==
    [created_at |-> a.created_at,
     hostname   |-> a.hostname,
     metric     |-> formatMetricName(a.metric),
     value      |-> Value(a),
     badge      |-> statusLabel(a)]

\* a variant that does not clear the body before it appends the rows
renderAlertsTableKeepingRows(data) ==
    IF ~IsArray(data)
    THEN [tbody |-> tbody, threw |-> TRUE]
    ELSE IF Len(data.array) = 0
    THEN [tbody |-> <<NoDataRow>>, threw |-> FALSE]
    ELSE [tbody |-> tbody \o [i \in 1..Len(data.array) |-> TableRow(data.array[i])],
          threw |-> FALSE]

\* The body is cleared first. A value that is no array has no forEach: the
\* call throws a TypeError after the clear.
renderAlertsTable(data) ==
    IF ~IsArray(data)
    THEN [tbody |-> <<>>, threw |-> TRUE]
    ELSE IF Len(data.array) = 0
    THEN [tbody |-> <<NoDataRow>>, threw |-> FALSE]
    ELSE [tbody |-> [i \in 1..Len(data.array) |-> TableRow(data.array[i])],
          threw |-> FALSE]

----------------------------------------------------------------------------
(* updateCoreMetrics, app.js:112-129 *)

\* [...new Set(xs)]: the distinct elements in order of first occurrence
RECURSIVE Distinct(_)
Distinct(xs) ==
    IF xs = <<>> THEN <<>>
    ELSE LET front == Distinct(SubSeq(xs, 1, Len(xs) - 1))
             x     == xs[Len(xs)]
         IN IF \E i \in 1..Len(front) : front[i] = x
            THEN front
            ELSE Append(front, x)

Hostnames(xs) == [i \in 1..Len(xs) |-> xs[i].hostname]

errorHosts(items) == Distinct(Hostnames(SelectSeq(items, IsAnomaly)))

\* a variant that counts a record at the threshold neither way
IsNormalBelow(a) == HasValue(a) /\ a.value < AnomalyThreshold

IsNormal(a) == HasValue(a) /\ a.value <= AnomalyThreshold

normalCount(items) == Len(SelectSeq(items, IsNormal))

systemStatus(items) == IF Len(errorHosts(items)) > 0 THEN "jinggao" ELSE "zhengchang"

statusClass(status) ==
    IF status = "jinggao"
    THEN "card-text display-4 text-warning"
    ELSE "card-text display-4 text-success"

updateCoreMetrics(items) ==
    [total        |-> Len(items),
     errorHosts   |-> Len(errorHosts(items)),
     normalCount  |-> normalCount(items),
     systemStatus |-> systemStatus(items),
     className    |-> statusClass(systemStatus(items))]

----------------------------------------------------------------------------
(* processChartData, app.js:142-166 *)

\* slice(-10) keeps this many cpu_usage records (app.js:147)
TrendWindow == 10

IsCpu(a) == a.metric = "cpu_usage"

\* new Date(s) reads the strings "d t" of the record format and the strings
\* "dTt"; a missing field gives an Invalid Date, whose time value is NaN
IsDate(s) == Len(s) \in {1, 2}

SecondsPerDay == 86400

DateParse(s) == IF Len(s) = 2 THEN s[1] * SecondsPerDay + s[2] ELSE s[1]

\* the comparator of app.js:146; a NaN result counts as 0 in Array.prototype.sort
compareCreatedAt(a, b) ==
    IF IsDate(a.created_at) /\ IsDate(b.created_at)
    THEN DateParse(a.created_at) - DateParse(b.created_at)
    ELSE 0

\* x goes behind every element that does not compare greater than it
RECURSIVE InsertSorted(_, _)
InsertSorted(sorted, x) ==
    IF sorted # <<>> /\ compareCreatedAt(sorted[Len(sorted)], x) > 0
    THEN Append(InsertSorted(SubSeq(sorted, 1, Len(sorted) - 1), x),
                sorted[Len(sorted)])
    ELSE Append(sorted, x)

\* Array.prototype.sort is stable. With a comparator that is no consistent
\* order (some created_at is no date) the result is implementation-defined:
\* no input enumerated below has two cpu_usage records one of which is undated.
RECURSIVE SortByCreatedAt(_)
SortByCreatedAt(s) ==
    IF s = <<>> THEN <<>>
    ELSE InsertSorted(SortByCreatedAt(SubSeq(s, 1, Len(s) - 1)), s[Len(s)])

\* a variant that keeps the oldest records instead of the most recent ones
cpuAlertsOldest(items) ==
    SubSeq(SortByCreatedAt(SelectSeq(items, IsCpu)), 1,
           Min(TrendWindow, Len(SelectSeq(items, IsCpu))))

cpuAlerts(items) == SliceLast(SortByCreatedAt(SelectSeq(items, IsCpu)), TrendWindow)

\* created_at.split(' ')[1]: the second piece, undefined when there is none
TimeOfDay(s) == IF Len(s) >= 2 THEN <<s[2]>> ELSE Undefined

\* split is called on created_at: a record without the field throws a TypeError
SplitThrows(cpu) == \E i \in 1..Len(cpu) : cpu[i].created_at = Undefined

cpuData(items) ==
    LET cpu == cpuAlerts(items)
    IN [labels |-> [i \in 1..Len(cpu) |-> TimeOfDay(cpu[i].created_at)],
        values |-> [i \in 1..Len(cpu) |-> Value(cpu[i])]]

\* metricCount after the forEach of app.js:155-158, as its entries in the order
\* in which the keys were created (no enumerated metric is the name of an
\* Object.prototype member).
RECURSIVE metricCount(_)
metricCount(items) ==
    IF items = <<>> THEN <<>>
    ELSE LET sofar == metricCount(SubSeq(items, 1, Len(items) - 1))
             name  == formatMetricName(items[Len(items)].metric)
         IN IF \E i \in 1..Len(sofar) : sofar[i].name = name
            THEN [i \in 1..Len(sofar) |->
                     IF sofar[i].name = name
                     THEN [name |-> name, count |-> sofar[i].count + 1]
                     ELSE sofar[i]]
            ELSE Append(sofar, [name |-> name, count |-> 1])

\* the keys that are canonical array indices, with their numeric value
ArrayIndex == ("7" :> 7) @@ ("12" :> 12)

IsArrayIndex(entry) == entry.name \in DOMAIN ArrayIndex

IsNamedKey(entry) == ~IsArrayIndex(entry)

\* the entries whose key is an array index, in ascending numeric order
AscendingIndices(entries) ==
    LET indexed == SelectSeq(entries, IsArrayIndex)
        before(x) == {i \in 1..Len(indexed) :
                        ArrayIndex[indexed[i].name] < ArrayIndex[x.name]}
    IN [k \in 1..Len(indexed) |->
           indexed[CHOOSE i \in 1..Len(indexed) :
                       Cardinality(before(indexed[i])) = k - 1]]

\* the order of Object.keys and Object.values: the array indices ascending,
\* then the other keys in the order of their creation
OwnPropertyOrder(entries) ==
    AscendingIndices(entries) \o SelectSeq(entries, IsNamedKey)

alertTypeData(items) ==
    LET mc == OwnPropertyOrder(metricCount(items))
    IN [labels |-> [i \in 1..Len(mc) |-> mc[i].name],
        values |-> [i \in 1..Len(mc) |-> mc[i].count]]

\* a variant whose sort orders the collection itself
sortedCopySortingInPlace(items) == SortByCreatedAt(items)

\* alertsData after processChartData. filter (app.js:145) returns a new array
\* and sort (app.js:146) orders that array in place; forEach, map, Object.keys
\* and Object.values only read.
sortedCopy(items) == items

processChartData(items) ==
    [alertsData    |-> sortedCopy(items),
     threw         |-> SplitThrows(cpuAlerts(items)),
     cpuData       |-> cpuData(items),
     alertTypeData |-> alertTypeData(items)]

----------------------------------------------------------------------------
(* renderCpuTrendChart, app.js:169-203; renderAlertTypeChart, app.js:206-238 *)

\* the doughnut's palette has this many colours (app.js:212-214)
PaletteSize == 6

\* a variant that never destroys the previous instance
DestroyNothing(chart, live) == live

\* Chart.prototype.destroy on the handle: the handle is the instance created
\* last on its canvas, which leaves the canvas
Destroy(chart, live) ==
    IF chart # Null THEN SubSeq(live, 1, Len(live) - 1) ELSE live

LineChart(data) ==
    [type |-> "line", labels |-> data.labels, values |-> data.values]

DoughnutChart(data) ==
    [type |-> "doughnut", labels |-> data.labels, values |-> data.values,
     backgroundColor |-> Min(PaletteSize, Len(data.labels))]

\* the instances alive on the canvas after the repaint
renderCpuTrendChart(chart, live, data) ==
    Append(Destroy(chart, live), LineChart(data))

renderAlertTypeChart(chart, live, data) ==
    Append(Destroy(chart, live), DoughnutChart(data))

----------------------------------------------------------------------------
(* The synchronous render of app.js:27-29 and 63-65, exceptions included *)

\* What the page shows and the chart handles after renderAlertsTable,
\* updateCoreMetrics and renderCharts ran on data, up to the first exception.
Render(data) ==
    LET table == renderAlertsTable(data)
        keep  == [alertsData |-> data,
                  tbody |-> table.tbody, metrics |-> metrics,
                  cpuTrendChart |-> cpuTrendChart,
                  alertTypeChart |-> alertTypeChart,
                  canvas |-> canvas, threw |-> TRUE,
                  steps |-> <<"renderAlertsTable">>]
    IN IF table.threw THEN keep
       ELSE LET chartData == processChartData(data.array)
                shown == [keep EXCEPT
                            !.alertsData = Arr(chartData.alertsData),
                            !.metrics = updateCoreMetrics(data.array),
                            !.steps = keep.steps \o <<"updateCoreMetrics",
                                                      "processChartData">>]
            IN IF chartData.threw THEN shown
               ELSE [shown EXCEPT
                       !.steps = shown.steps \o <<"renderCpuTrendChart",
                                                  "renderAlertTypeChart">>,
                       !.cpuTrendChart  = LineChart(chartData.cpuData),
                       !.alertTypeChart = DoughnutChart(chartData.alertTypeData),
                       !.canvas = [cpu  |-> renderCpuTrendChart(cpuTrendChart,
                                              canvas.cpu, chartData.cpuData),
                                   type |-> renderAlertTypeChart(alertTypeChart,
                                              canvas.type, chartData.alertTypeData)],
                       !.threw = FALSE]

----------------------------------------------------------------------------
(* What the page and the backend can hand to the handlers *)

\* at most this many awaits are outstanding at once
MaxPending == 2

Alert(created_at, hostname, metric, value) ==
    [created_at |-> created_at, hostname |-> hostname,
     metric |-> metric, value |-> value]

\* the collection of the scenario of section 8 of the specification
Scenario ==
    <<Alert(<<1, 36000>>, "h1", "cpu_usage", 90),
      Alert(<<1, 36001>>, "h2", "mem_usage", 50)>>

\* a collection whose cpu_usage record lacks created_at
Undated == <<Alert(Undefined, "h1", "cpu_usage", 90)>>

Collections == {Scenario, Undated}

\* The collections of the first-load specification: every sequence of at most
\* MaxShort records of DeriveRecords, and Filler with up to MaxEdge such
\* records before it and after it (more cpu_usage records than TrendWindow).
MaxShort == 4

MaxEdge == 1

\* records that tie on created_at, straddle the threshold, share a host, and
\* one whose day is later while its time of day is earlier
DeriveRecords ==
    {Alert(<<1, 2>>, "h1", "cpu_usage", 81),
     Alert(<<1, 1>>, "h2", "cpu_usage", 80),
     Alert(<<1, 2>>, "h1", "cpu_usage", 79),
     Alert(<<1, 3>>, "h2", "mem_usage", 81),
     Alert(<<2, 0>>, "h2", "cpu_usage", 95)}

SeqsUpTo(S, n) == UNION {[1..k -> S] : k \in 0..n}

\* TrendWindow cpu_usage records, out of order and with ties on created_at
Filler == [i \in 1..TrendWindow |-> Alert(<<1, (i * 2) % 3>>, "h1", "cpu_usage", 50 + i)]

DeriveCollections ==
    SeqsUpTo(DeriveRecords, MaxShort)
    \cup {before \o Filler \o after :
            before \in SeqsUpTo(DeriveRecords, MaxEdge),
            after \in SeqsUpTo(DeriveRecords, MaxEdge)}

DeriveBodies == {[alerts |-> Arr(c)] : c \in DeriveCollections}

\* a body that is no JSON: response.json() rejects with a SyntaxError
Unparseable == [unparseable |-> TRUE]

\* what response.json() of the POST can resolve to, or Unparseable
SubmitBodies == {Unparseable, Null, [message |-> "tijiao chenggong"]}

\* what response.json() of a GET can resolve to, or Unparseable
Bodies == SubmitBodies \cup {[alerts |-> Arr(c)] : c \in Collections}

\* a body whose alerts field is no array
NotAnArray == [alerts |-> Num(42)]

\* The bodies of the odd-load specification: NotAnArray, and every sequence of
\* at most MaxOdd records of OddRecords.
MaxOdd == 3

\* records outside the record format: a created_at without a space (an instant
\* between those of the two records around it), a metric that is none of the
\* five identifiers, and a metric that is written as an integer
\* a record that came without its value
Unvalued == [created_at |-> <<1, 9>>, hostname |-> "h1", metric |-> "mem_usage"]

OddRecords ==
    {Alert(<<1, 5>>, "h1", "cpu_usage", 70),
     Alert(<<SecondsPerDay + 3>>, "h1", "cpu_usage", 90),
     Alert(<<1, 1>>, "h2", "cpu_usage", 85),
     Alert(<<1, 6>>, "h2", "custom", 60),
     Alert(<<1, 7>>, "h2", "7", 10),
     Alert(<<1, 8>>, "h1", "12", 20),
     Unvalued}

OddCollections == SeqsUpTo(OddRecords, MaxOdd)

OddBodies == {NotAnArray} \cup {[alerts |-> Arr(c)] : c \in OddCollections}

\* how the promise of fetch settles: rejected (transport failure), or
\* resolved with a response whose ok is false or true
FetchOutcomes == {"rejected", "notok", "ok"}

\* what the operator can have typed into #search-form
SearchInputs ==
    {[hostname |-> <<>>,              startTime |-> "", endTime |-> ""],
     [hostname |-> <<" ">>,           startTime |-> "2024-01-01T00:00", endTime |-> ""],
     [hostname |-> <<" ", "a", " ">>, startTime |-> "", endTime |-> "2024-01-02T00:00"]}

\* form.reset(): the fields as the page declares them, which is empty
EmptySearchForm == [hostname |-> <<>>, startTime |-> "", endTime |-> ""]

\* what the operator can have typed into #alert-form; value as its digits
AlertInputs ==
    {[hostname |-> <<" ", "a">>, metric |-> "mem_usage",
      value |-> <<"9", "5">>, message |-> <<" ">>]}

EmptyAlertForm ==
    [hostname |-> <<>>, metric |-> "cpu_usage", value |-> <<>>, message |-> <<>>]

----------------------------------------------------------------------------
(* The state after the script has been evaluated, app.js:1-5 *)

\* the markup of the page before any render; it is not part of app.js
Markup == [markup |-> TRUE]

\* last: the handler that ran, the stretch of it (from its call, or from the
\* await of fetch or of json), how the stretch ended, the body it parsed (Null
\* when it parsed none), the event handler that called it and, a history
\* flag, whether a request issued later than its own had been rendered before it
Stretch(handler, stretch, outcome, body, request) ==
    [handler |-> handler, stretch |-> stretch, outcome |-> outcome,
     body |-> body, trigger |-> request.trigger, overtaken |-> request.overtaken]

Quiet(handler) ==
    [handler |-> handler, stretch |-> "call", outcome |-> "done", body |-> Null,
     trigger |-> handler, overtaken |-> FALSE]

Init ==
    /\ alertsData = Arr(<<>>)
    /\ cpuTrendChart = Null
    /\ alertTypeChart = Null
    /\ tbody = <<Markup>>
    /\ metrics = Markup
    /\ canvas = [cpu |-> <<>>, type |-> <<>>]
    /\ searchForm = EmptySearchForm
    /\ alertForm = EmptyAlertForm
    /\ pending = <<>>
    /\ notices = <<>>
    /\ fetched = <<>>
    /\ last = Quiet("script")
    /\ steps = <<>>
    /\ loaded = FALSE

----------------------------------------------------------------------------
(* Requests and what the handlers do around their awaits *)

\* an outstanding await of handler op, which the event handler trigger called;
\* overtaken is a history flag: a request issued later than this one has been
\* rendered already
Request(op, trigger) ==
    [op |-> op, await |-> "fetch", trigger |-> trigger, overtaken |-> FALSE]

\* a variant that aborts what is outstanding when a new request starts
IssueAborting(outstanding, request) == <<request>>

\* fetch(...) starts a request; nothing outstanding is aborted
Issue(outstanding, request) == Append(outstanding, request)

\* the await of the request at position i is over
Settle(outstanding, i) ==
    SubSeq(outstanding, 1, i - 1) \o SubSeq(outstanding, i + 1, Len(outstanding))

\* response.json() of the request at position i is awaited next
ReadBody(outstanding, i) == [outstanding EXCEPT ![i].await = "json"]

\* the request at position i has been rendered: the older ones are overtaken
Overtake(outstanding, i) ==
    [j \in 1..Len(outstanding) |->
        IF j < i THEN [outstanding[j] EXCEPT !.overtaken = TRUE] ELSE outstanding[j]]

Awaiting(handler, stretch, trigger) ==
    [handler |-> handler, stretch |-> stretch, outcome |-> "awaiting",
     body |-> Null, trigger |-> trigger, overtaken |-> FALSE]

\* a variant that alerts twice
CaughtTwice(prefix, message) ==
    <<[text |-> prefix, message |-> message], [text |-> prefix, message |-> message]>>

\* the alert of a catch block: prefix + error.message
Caught(prefix, message) == <<[text |-> prefix, message |-> message]>>

\* a variant in which every catch block carries the text of the load
PrefixOfLoad(op) == "shuaxin shuju shibai:"

Prefix(op) ==
    CASE op = "refreshAlerts" -> "shuaxin shuju shibai:"
      [] op = "searchAlerts"  -> "sousuo gaojing shibai:"
      [] op = "submitAlert"   -> "tijiao gaojing shibai:"

\* the message of the Error thrown when response.ok is false
NotOkMessage(op) ==
    CASE op = "refreshAlerts" -> "jiekou qingqiu shibai"
      [] op = "searchAlerts"  -> "sousuo shibai"
      [] op = "submitAlert"   -> "tijiao shibai"

\* result.alerts || []
Store(result) ==
    IF "alerts" \in DOMAIN result /\ Truthy(result.alerts)
    THEN result.alerts
    ELSE Arr(<<>>)

\* after await fetch(...) settled for the request at position i
FetchSettled(i, outcome) ==
    LET op == pending[i].op
    IN /\ fetched' = <<>>
       /\ IF outcome = "ok"
          THEN /\ pending' = ReadBody(pending, i)
               /\ notices' = <<>>
               /\ steps' = <<"response.json">>
               /\ last' = Awaiting(op, "fetch", pending[i].trigger)
          ELSE /\ pending' = Settle(pending, i)
               /\ notices' = Caught(Prefix(op),
                                    IF outcome = "rejected" THEN "Failed to fetch"
                                    ELSE NotOkMessage(op))
               /\ steps' = <<"alert">>
               /\ last' = Stretch(op, "fetch", "failed", Null, pending[i])
       /\ UNCHANGED <<alertsData, cpuTrendChart, alertTypeChart, tbody, metrics,
                      canvas, searchForm, alertForm, loaded>>

\* the catch block after await response.json() rejected, or after reading a
\* field of a null result threw
ParseFailed(i, body) ==
    LET op == pending[i].op
    IN /\ pending' = Settle(pending, i)
       /\ notices' = Caught(Prefix(op),
                            IF body = Unparseable THEN "SyntaxError" ELSE "TypeError")
       /\ fetched' = <<>>
       /\ steps' = <<"alert">>
       /\ last' = Stretch(op, "json", "failed", body, pending[i])
       /\ UNCHANGED <<alertsData, cpuTrendChart, alertTypeChart, tbody, metrics,
                      canvas, searchForm, alertForm, loaded>>

\* a variant that shows the result of a search before the page is repainted
LoadStepsNoticeFirst(op, rendered) ==
    <<"alertsData">>
    \o (IF op = "searchAlerts" /\ ~rendered.threw THEN <<"alert">> ELSE <<>>)
    \o rendered.steps
    \o (IF rendered.threw THEN <<"alert">> ELSE <<>>)

\* the statements of app.js:24-31 and 60-70 in the order of their execution:
\* the assignment, the render up to its first exception, then the alert of the
\* search result or of the catch block
LoadSteps(op, rendered) ==
    <<"alertsData">>
    \o rendered.steps
    \o (IF rendered.threw \/ op = "searchAlerts" THEN <<"alert">> ELSE <<>>)

\* after await response.json() settled with body for the load or search at
\* position i: app.js:23-33 and 59-72
LoadParsed(i, body) ==
    IF body \in {Unparseable, Null}
    THEN ParseFailed(i, body)
    ELSE LET op   == pending[i].op
             data == Store(body)
             page == Render(data)
         IN /\ alertsData' = page.alertsData
            /\ tbody' = page.tbody
            /\ metrics' = page.metrics
            /\ cpuTrendChart' = page.cpuTrendChart
            /\ alertTypeChart' = page.alertTypeChart
            /\ canvas' = page.canvas
            /\ pending' = IF page.threw THEN Settle(pending, i)
                          ELSE Settle(Overtake(pending, i), i)
            /\ fetched' = <<>>
            /\ notices' =
                 IF page.threw THEN Caught(Prefix(op), "TypeError")
                 ELSE IF op = "searchAlerts"
                 THEN <<[text |-> "sousuo wancheng", count |-> Len(data.array)]>>
                 ELSE <<>>
            /\ steps' = LoadSteps(op, page)
            /\ last' = Stretch(op, "json", IF page.threw THEN "failed" ELSE "rendered",
                               body, pending[i])
            /\ UNCHANGED <<searchForm, alertForm, loaded>>

----------------------------------------------------------------------------
(* The handlers *)

GetAll == [method |-> "GET", url |-> "/alerts/", params |-> <<>>]

\* refreshAlerts up to its first await, app.js:18-20, called by trigger
CallRefresh(outstanding, trigger) ==
    /\ pending' = Issue(outstanding, Request("refreshAlerts", trigger))
    /\ fetched' = <<GetAll>>

\* the listener of app.js:8-15
DOMContentLoaded ==
    /\ ~loaded
    /\ loaded' = TRUE
    /\ CallRefresh(pending, "DOMContentLoaded")
    /\ notices' = <<>>
    /\ steps' = <<"fetch">>
    /\ last' = Awaiting("DOMContentLoaded", "call", "DOMContentLoaded")
    /\ UNCHANGED <<alertsData, cpuTrendChart, alertTypeChart, tbody, metrics,
                   canvas, searchForm, alertForm>>

\* await fetch(...) settles for the call of refreshAlerts at position i
refreshAlerts_fetch(i, outcome) ==
    /\ pending[i].op = "refreshAlerts"
    /\ pending[i].await = "fetch"
    /\ FetchSettled(i, outcome)

\* await response.json() settles for the call of refreshAlerts at position i
refreshAlerts_json(i, body) ==
    /\ pending[i].op = "refreshAlerts"
    /\ pending[i].await = "json"
    /\ LoadParsed(i, body)

\* a variant that does not trim the hostname
searchParamsUntrimmed(form) ==
    (IF form.hostname # <<>>
     THEN <<[key |-> "hostname", value |-> form.hostname]>> ELSE <<>>)
    \o (IF form.startTime # ""
        THEN <<[key |-> "start_time", value |-> form.startTime]>> ELSE <<>>)
    \o (IF form.endTime # ""
        THEN <<[key |-> "end_time", value |-> form.endTime]>> ELSE <<>>)

\* URLSearchParams after the appends of app.js:46-49
searchParams(form) ==
    LET hostname == Trim(form.hostname)
    IN (IF hostname # <<>> THEN <<[key |-> "hostname", value |-> hostname]>> ELSE <<>>)
       \o (IF form.startTime # ""
           THEN <<[key |-> "start_time", value |-> form.startTime]>> ELSE <<>>)
       \o (IF form.endTime # ""
           THEN <<[key |-> "end_time", value |-> form.endTime]>> ELSE <<>>)

\* searchAlerts up to its first await, app.js:37-56; input is what the
\* operator left in the fields of #search-form when submitting it
searchAlerts(input) ==
    /\ loaded
    /\ Len(pending) < MaxPending
    /\ searchForm' = input
    /\ pending' = Issue(pending, Request("searchAlerts", "searchAlerts"))
    /\ fetched' = <<[method |-> "GET", url |-> "/alerts/search",
                     params |-> searchParams(input)]>>
    /\ notices' = <<>>
    /\ steps' = <<"fetch">>
    /\ last' = Awaiting("searchAlerts", "call", "searchAlerts")
    /\ UNCHANGED <<alertsData, cpuTrendChart, alertTypeChart, tbody, metrics,
                   canvas, alertForm, loaded>>

\* await fetch(...) settles for the call of searchAlerts at position i
searchAlerts_fetch(i, outcome) ==
    /\ pending[i].op = "searchAlerts"
    /\ pending[i].await = "fetch"
    /\ FetchSettled(i, outcome)

\* await response.json() settles for the call of searchAlerts at position i
searchAlerts_json(i, body) ==
    /\ pending[i].op = "searchAlerts"
    /\ pending[i].await = "json"
    /\ LoadParsed(i, body)

\* a variant that leaves the fields of the form as they are
resetSearchKeepingForm ==
    /\ loaded
    /\ Len(pending) < MaxPending
    /\ CallRefresh(pending, "resetSearch")
    /\ notices' = <<>>
    /\ steps' = <<"fetch">>
    /\ last' = Awaiting("resetSearch", "call", "resetSearch")
    /\ UNCHANGED <<alertsData, cpuTrendChart, alertTypeChart, tbody, metrics,
                   canvas, searchForm, alertForm, loaded>>

\* app.js:76-80
resetSearch ==
    /\ loaded
    /\ Len(pending) < MaxPending
    /\ searchForm' = EmptySearchForm
    /\ CallRefresh(pending, "resetSearch")
    /\ notices' = <<>>
    /\ steps' = <<"reset", "fetch">>
    /\ last' = Awaiting("resetSearch", "call", "resetSearch")
    /\ UNCHANGED <<alertsData, cpuTrendChart, alertTypeChart, tbody, metrics,
                   canvas, alertForm, loaded>>

IsDigit(c) == c \in {"0", "1", "2", "3", "4", "5", "6", "7", "8", "9"}

RECURSIVE LeadingDigits(_)
LeadingDigits(s) ==
    IF s # <<>> /\ IsDigit(Head(s)) THEN <<Head(s)>> \o LeadingDigits(Tail(s)) ELSE <<>>

\* parseInt of the field, as URLSearchParams then writes it: the leading
\* digits after any leading blanks, "NaN" when there are none
parseInt(s) ==
    LET digits == LeadingDigits(TrimStart(s))
    IN IF digits = <<>> THEN <<"NaN">> ELSE digits

\* the form-encoded body of app.js:245-255
alertBody(form) ==
    [hostname |-> Trim(form.hostname),
     metric   |-> form.metric,
     value    |-> parseInt(form.value),
     message  |-> IF Trim(form.message) # <<>> THEN Trim(form.message)
                  ELSE <<formatMetricName(form.metric), "yichang">>]

\* submitAlert up to its first await, app.js:241-256; input is what the
\* operator left in the fields of #alert-form when submitting it
submitAlert(input) ==
    /\ loaded
    /\ Len(pending) < MaxPending
    /\ alertForm' = input
    /\ pending' = Issue(pending, Request("submitAlert", "submitAlert"))
    /\ fetched' = <<[method |-> "POST", url |-> "/alerts/",
                     body |-> alertBody(input)]>>
    /\ notices' = <<>>
    /\ steps' = <<"fetch">>
    /\ last' = Awaiting("submitAlert", "call", "submitAlert")
    /\ UNCHANGED <<alertsData, cpuTrendChart, alertTypeChart, tbody, metrics,
                   canvas, searchForm, loaded>>

\* await fetch(...) settles for the call of submitAlert at position i
submitAlert_fetch(i, outcome) ==
    /\ pending[i].op = "submitAlert"
    /\ pending[i].await = "fetch"
    /\ FetchSettled(i, outcome)

\* a variant that leaves the refresh to the operator
submitAlert_jsonWithoutRefresh(i, body) ==
    /\ pending[i].op = "submitAlert"
    /\ pending[i].await = "json"
    /\ IF body \in {Unparseable, Null}
       THEN ParseFailed(i, body)
       ELSE /\ notices' = <<[confirm |-> IF "message" \in DOMAIN body
                                        THEN body.message ELSE "undefined"]>>
            /\ alertForm' = EmptyAlertForm
            /\ pending' = Settle(pending, i)
            /\ fetched' = <<>>
            /\ steps' = <<"alert", "reset">>
            /\ last' = Stretch("submitAlert", "json", "submitted", body,
                               pending[i])
            /\ UNCHANGED <<alertsData, cpuTrendChart, alertTypeChart, tbody,
                           metrics, canvas, searchForm, loaded>>

\* await response.json() settles for the call of submitAlert at position i,
\* app.js:259-268
submitAlert_json(i, body) ==
    /\ pending[i].op = "submitAlert"
    /\ pending[i].await = "json"
    /\ IF body \in {Unparseable, Null}
       THEN ParseFailed(i, body)
       ELSE /\ notices' = <<[confirm |-> IF "message" \in DOMAIN body
                                        THEN body.message ELSE "undefined"]>>
            /\ alertForm' = EmptyAlertForm
            /\ CallRefresh(Settle(pending, i), "submitAlert")
            /\ steps' = <<"alert", "reset", "fetch">>
            /\ last' = Stretch("submitAlert", "json", "submitted", body,
                               pending[i])
            /\ UNCHANGED <<alertsData, cpuTrendChart, alertTypeChart, tbody,
                           metrics, canvas, searchForm, loaded>>

\* Every handler against every answer of the backend. What the search form
\* holds reaches the request only, never the page: it is left empty here and
\* varied in SpecSearch.
Next ==
    \/ DOMContentLoaded
    \/ searchAlerts(EmptySearchForm)
    \/ resetSearch
    \/ \E input \in AlertInputs : submitAlert(input)
    \/ \E i \in 1..Len(pending), outcome \in FetchOutcomes : refreshAlerts_fetch(i, outcome)
    \/ \E i \in 1..Len(pending), body \in Bodies : refreshAlerts_json(i, body)
    \/ \E i \in 1..Len(pending), outcome \in FetchOutcomes : searchAlerts_fetch(i, outcome)
    \/ \E i \in 1..Len(pending), body \in Bodies : searchAlerts_json(i, body)
    \/ \E i \in 1..Len(pending), outcome \in FetchOutcomes : submitAlert_fetch(i, outcome)
    \/ \E i \in 1..Len(pending), body \in SubmitBodies : submitAlert_json(i, body)

Spec == Init /\ [][Next]_vars

\* The initial load alone, against every backend content of DeriveBodies: the
\* page as updateCoreMetrics and processChartData derive it from a collection.
FirstLoad ==
    \/ DOMContentLoaded
    \/ \E i \in 1..Len(pending), outcome \in FetchOutcomes : refreshAlerts_fetch(i, outcome)
    \/ \E i \in 1..Len(pending), body \in DeriveBodies : refreshAlerts_json(i, body)

SpecFirstLoad == Init /\ [][FirstLoad]_vars

\* the backend answers the request at position i, or its transport fails, and
\* the handler that awaits it runs on
Answered(i) ==
    /\ i \in 1..Len(pending)
    /\ \/ \E outcome \in FetchOutcomes :
             \/ refreshAlerts_fetch(i, outcome)
             \/ searchAlerts_fetch(i, outcome)
             \/ submitAlert_fetch(i, outcome)
       \/ \E body \in Bodies :
             \/ refreshAlerts_json(i, body)
             \/ searchAlerts_json(i, body)
       \/ \E body \in SubmitBodies : submitAlert_json(i, body)

\* Spec with a backend that eventually answers every request, the oldest first
\* at the latest
SpecAnswered == Spec /\ \A i \in 1..MaxPending : WF_vars(Answered(i))

\* The initial load, search and reset with every content of the search form.
SearchNext ==
    \/ DOMContentLoaded
    \/ \E input \in SearchInputs : searchAlerts(input)
    \/ resetSearch
    \/ \E i \in 1..Len(pending), outcome \in FetchOutcomes : refreshAlerts_fetch(i, outcome)
    \/ \E i \in 1..Len(pending), body \in Bodies : refreshAlerts_json(i, body)
    \/ \E i \in 1..Len(pending), outcome \in FetchOutcomes : searchAlerts_fetch(i, outcome)
    \/ \E i \in 1..Len(pending), body \in Bodies : searchAlerts_json(i, body)

SpecSearch == Init /\ [][SearchNext]_vars

\* The initial load alone, against every backend content of OddBodies.
OddLoad ==
    \/ DOMContentLoaded
    \/ \E i \in 1..Len(pending), outcome \in FetchOutcomes : refreshAlerts_fetch(i, outcome)
    \/ \E i \in 1..Len(pending), body \in OddBodies : refreshAlerts_json(i, body)

SpecOddLoad == Init /\ [][OddLoad]_vars

----------------------------------------------------------------------------
(* Properties of the interleaved handlers, checked under Spec *)

\* the collection and everything derived from it
page == <<alertsData, tbody, metrics, canvas, cpuTrendChart, alertTypeChart>>

\* the table, the metrics and both charts are those of the collection items
Shows(items) ==
    /\ tbody = IF items = <<>> THEN <<NoDataRow>>
               ELSE [i \in 1..Len(items) |-> TableRow(items[i])]
    /\ metrics = updateCoreMetrics(items)
    /\ canvas.cpu = <<LineChart(cpuData(items))>>
    /\ canvas.type = <<DoughnutChart(alertTypeData(items))>>

\* the alerts of a parsed body, the empty collection when it has none
Payload(body) ==
    IF "alerts" \in DOMAIN body /\ body.alerts # Null THEN body.alerts ELSE Arr(<<>>)

\* C1: a load, search or submit that fails (transport, status, or a body that
\* is unparseable or of the wrong shape) leaves the collection, the table, the
\* metrics and both charts exactly as they were.
C1_FailureKeepsSnapshot == [][last'.outcome = "failed" => page' = page]_vars

\* C2, first half: whenever a load or search response has been rendered, the
\* collection is the payload of that response, the one that resolved last, and
\* the page shows it, whether or not a request issued later was rendered before.
C2_LastWriteWins ==
    last.outcome = "rendered" =>
        /\ alertsData = Payload(last.body)
        /\ Shows(alertsData.array)

\* C2, second half: no request is cancelled. A handler that starts a request
\* leaves the outstanding ones in place, and a step ends at most one await.
C2_NoneCancelled ==
    /\ last'.stretch = "call" => SubSeq(pending', 1, Len(pending)) = pending
    /\ Len(pending') >= Len(pending) - 1

\* C2: with two load/search requests outstanding neither is cancelled and both
\* responses are applied; the collection and the page are those of the response
\* that resolved last, whatever the order in which the requests were issued.
C2_BothAppliedLastWins == [] C2_LastWriteWins /\ [][C2_NoneCancelled]_vars

\* the initial load rendered last although a search issued after it had been
\* rendered before it
C2_Witness ==
    /\ last.handler = "refreshAlerts"
    /\ last.outcome = "rendered"
    /\ last.overtaken
    /\ pending = <<>>
    /\ alertsData = Arr(Scenario)
    /\ Shows(Scenario)

\* C3: whenever no handler is running, the table, the metrics and the charts
\* that have been rendered are all derived from the current value of alertsData.
C3_ViewsOfOneSnapshot ==
    /\ tbody # <<Markup>> => tbody = renderAlertsTable(alertsData).tbody
    /\ metrics # Markup =>
         IsArray(alertsData) /\ metrics = updateCoreMetrics(alertsData.array)
    /\ cpuTrendChart # Null =>
         /\ IsArray(alertsData)
         /\ canvas.cpu = <<LineChart(cpuData(alertsData.array))>>
         /\ canvas.type = <<DoughnutChart(alertTypeData(alertsData.array))>>

\* C4: each canvas holds at most one live chart instance, which is the one the
\* handle names; after a render each canvas holds exactly one.
C4_OneChartPerCanvas ==
    /\ Len(canvas.cpu) <= 1
    /\ Len(canvas.type) <= 1
    /\ canvas.cpu = IF cpuTrendChart = Null THEN <<>> ELSE <<cpuTrendChart>>
    /\ canvas.type = IF alertTypeChart = Null THEN <<>> ELSE <<alertTypeChart>>
    /\ last.outcome = "rendered" => Len(canvas.cpu) = 1 /\ Len(canvas.type) = 1

\* a second render (of a request that had been overtaken by a rendered one)
\* has repainted both charts
C4_Witness ==
    /\ last.outcome = "rendered"
    /\ last.overtaken
    /\ Len(canvas.cpu) = 1
    /\ Len(canvas.type) = 1
    /\ pending # <<>>

\* C5: a failed submit changes neither the collection nor the table, metrics
\* and charts, shows exactly one notification, that of the submit, and starts
\* no request.
C5_FailedSubmit ==
    [][(last'.handler = "submitAlert" /\ last'.outcome = "failed") =>
          /\ page' = page
          /\ Len(notices') = 1
          /\ notices'[1].text = "tijiao gaojing shibai:"
          /\ fetched' = <<>>
          /\ Len(pending') = Len(pending) - 1]_vars

\* a submit failed on an unparseable body while the table showed the scenario
C5_Witness ==
    /\ last.handler = "submitAlert"
    /\ last.outcome = "failed"
    /\ last.body = Unparseable
    /\ Len(notices) = 1
    /\ fetched = <<>>
    /\ Shows(Scenario)

HasText(s) == \E i \in 1..Len(s) : s[i] # " "

Keys(params) == {params[i].key : i \in 1..Len(params)}

\* C6, under SpecSearch: a search submit issues exactly one request, a GET of /alerts/search; its
\* query names a criterion iff the field is not empty (the hostname: not blank),
\* and names none twice.
C6_SearchRoute ==
    (last.handler = "searchAlerts" /\ last.stretch = "call") =>
        /\ Len(fetched) = 1
        /\ fetched[1].method = "GET"
        /\ fetched[1].url = "/alerts/search"
        /\ fetched[1].url # GetAll.url
        /\ "hostname" \in Keys(fetched[1].params) <=> HasText(searchForm.hostname)
        /\ "start_time" \in Keys(fetched[1].params) <=> searchForm.startTime # ""
        /\ "end_time" \in Keys(fetched[1].params) <=> searchForm.endTime # ""
        /\ Cardinality(Keys(fetched[1].params)) = Len(fetched[1].params)

\* a search with every field empty went to the search route without parameters
C6_Witness ==
    /\ last.handler = "searchAlerts"
    /\ last.stretch = "call"
    /\ searchForm = EmptySearchForm
    /\ fetched = <<[method |-> "GET", url |-> "/alerts/search", params |-> <<>>]>>

\* C7, under SpecSearch: resetSearch leaves the search form empty and issues one fetch-all
\* request, the request of the initial load, as the newest outstanding one; a
\* fetch-all response that is rendered replaces the collection by its payload.
C7_ResetIsFullRefresh ==
    /\ last.handler = "resetSearch" =>
         /\ searchForm = EmptySearchForm
         /\ fetched = <<[method |-> "GET", url |-> "/alerts/", params |-> <<>>]>>
         /\ pending # <<>>
         /\ pending[Len(pending)] =
              [op |-> "refreshAlerts", await |-> "fetch",
               trigger |-> "resetSearch", overtaken |-> FALSE]
    /\ (last.handler = "refreshAlerts" /\ last.outcome = "rendered") =>
         alertsData = Payload(last.body)

\* a reset ran while the search before it was still outstanding
C7_Witness ==
    /\ last.handler = "resetSearch"
    /\ Len(pending) = 2
    /\ pending[1].op = "searchAlerts"
    /\ searchForm = EmptySearchForm

\* C8, under SpecOddLoad: the collection is an array in every reachable state.
C8_AlwaysASequence == IsArray(alertsData)

\* the order section 4.6 gives a successful response: the collection, the
\* table, the metrics, the chart series, then both charts
RenderOrder ==
    <<"alertsData", "renderAlertsTable", "updateCoreMetrics", "processChartData",
      "renderCpuTrendChart", "renderAlertTypeChart">>

\* which handler awaits what, in the order of the requests
Awaits(outstanding) ==
    [j \in 1..Len(outstanding) |-> <<outstanding[j].op, outstanding[j].await>>]

\* C13: a step that renders a load or search response does, in this order and
\* as one uninterrupted step, the replacement of the collection, the table, the
\* metrics, the chart series and the repaint of the CPU trend chart and of the
\* alert type chart; a search shows its one result notification after all of
\* them, a load shows none; no other handler's await moves in that step.
C13_RenderOrder ==
    [][last'.outcome = "rendered" =>
          /\ steps' = RenderOrder \o (IF last'.handler = "searchAlerts"
                                       THEN <<"alert">> ELSE <<>>)
          /\ Len(notices') = IF last'.handler = "searchAlerts" THEN 1 ELSE 0
          /\ \E i \in 1..Len(pending) :
                /\ pending[i] = [op |-> last'.handler, await |-> "json",
                                 trigger |-> last'.trigger,
                                 overtaken |-> last'.overtaken]
                /\ Awaits(pending') = Awaits(Settle(pending, i))]_vars

\* a search response was rendered, and its result shown, while the request of
\* another handler was outstanding
C13_Witness ==
    /\ last.handler = "searchAlerts"
    /\ last.outcome = "rendered"
    /\ steps = RenderOrder \o <<"alert">>
    /\ notices = <<[text |-> "sousuo wancheng", count |-> 2]>>
    /\ pending # <<>>
    /\ pending[1].op # "searchAlerts"

\* C14: a step in which a load, search or submit fails ends that handler in
\* its own catch block: it shows exactly one notification, which begins with
\* the text of the operation that failed (load, search, submit), it starts no
\* request (no retry), and the await of no other handler moves; so also for
\* the refresh that a successful submit started without awaiting it.
C14_FailuresCaught ==
    [][last'.outcome = "failed" =>
          /\ last'.handler \in {"refreshAlerts", "searchAlerts", "submitAlert"}
          /\ Len(notices') = 1
          /\ notices'[1].text =
                (CASE last'.handler = "refreshAlerts" -> "shuaxin shuju shibai:"
                   [] last'.handler = "searchAlerts"  -> "sousuo gaojing shibai:"
                   [] last'.handler = "submitAlert"   -> "tijiao gaojing shibai:")
          /\ fetched' = <<>>
          /\ steps'[Len(steps')] = "alert"
          /\ \E i \in 1..Len(pending) :
                /\ pending[i].op = last'.handler
                /\ pending[i].trigger = last'.trigger
                /\ Awaits(pending') = Awaits(Settle(pending, i))]_vars

\* the refresh that a successful submit started failed on the transport and
\* showed the notification of the load
C14_Witness ==
    /\ last.handler = "refreshAlerts"
    /\ last.trigger = "submitAlert"
    /\ last.outcome = "failed"
    /\ notices = <<[text |-> "shuaxin shuju shibai:", message |-> "Failed to fetch"]>>
    /\ fetched = <<>>
    /\ alertForm = EmptyAlertForm

\* C16, first part: no stretch of submitAlert changes the collection or a
\* view. The stretch that ends a successful submit shows the confirmation,
\* resets the form and starts exactly one request, the fetch-all, in place of
\* its own; the collection changes only in a stretch that parsed the response
\* of a load or of a search.
C16_SubmitStep ==
    /\ last'.handler = "submitAlert" => page' = page
    /\ last'.outcome = "submitted" =>
          /\ Len(notices') = 1
          /\ "confirm" \in DOMAIN notices'[1]
          /\ alertForm' = EmptyAlertForm
          /\ fetched' = <<[method |-> "GET", url |-> "/alerts/", params |-> <<>>]>>
          /\ Len(pending') = Len(pending)
          /\ pending'[Len(pending')] =
                [op |-> "refreshAlerts", await |-> "fetch",
                 trigger |-> "submitAlert", overtaken |-> FALSE]
    /\ alertsData' # alertsData =>
          /\ last'.handler \in {"refreshAlerts", "searchAlerts"}
          /\ last'.stretch = "json"

\* C16, second part: when the refresh that a submit started has been rendered,
\* the collection is the payload of that fetch-all response and the page shows it.
C16_RefreshedView ==
    (last.handler = "refreshAlerts" /\ last.trigger = "submitAlert"
       /\ last.outcome = "rendered") =>
        /\ alertsData = Payload(last.body)
        /\ Shows(alertsData.array)

\* C16: a submit changes neither the collection nor a view by itself; after a
\* successful submit the confirmation is shown, the form is reset and exactly
\* one fetch-all request is issued; the collection changes only when a load or
\* search response is parsed, and the view refreshed for the submit is the
\* fetch-all result.
C16_SubmitThenRefresh == [] C16_RefreshedView /\ [][C16_SubmitStep]_vars

\* a submit succeeded while the page showed a result rendered after the
\* initial load was started (that load is still outstanding); the page is
\* unchanged, the form is reset and the fetch-all is the newest request
C16_Witness ==
    /\ last.handler = "submitAlert"
    /\ last.outcome = "submitted"
    /\ Shows(Scenario)
    /\ alertForm = EmptyAlertForm
    /\ notices = <<[confirm |-> "tijiao chenggong"]>>
    /\ Len(pending) = 2
    /\ pending[1].trigger = "DOMContentLoaded"
    /\ pending[2].trigger = "submitAlert"
    /\ pending[2].op = "refreshAlerts"

Triggers == {"DOMContentLoaded", "searchAlerts", "resetSearch", "submitAlert"}

\* LOADING: a request of the operation that trigger started is outstanding
Loading(trigger) == \E j \in 1..Len(pending) : pending[j].trigger = trigger

\* ERROR: the notification of a catch block is shown
ErrorShown == \E k \in 1..Len(notices) : "message" \in DOMAIN notices[k]

\* C15, first part: a trigger leaves a request of its operation outstanding.
C15_EntersLoading ==
    [][last'.stretch = "call" =>
          /\ last'.trigger \in Triggers
          /\ \E j \in 1..Len(pending') :
                pending'[j] = [op |-> IF last'.trigger \in {"searchAlerts", "submitAlert"}
                                      THEN last'.trigger ELSE "refreshAlerts",
                               await |-> "fetch", trigger |-> last'.trigger,
                               overtaken |-> FALSE]]_vars

\* C15, second part: with a backend that answers, an operation that is
\* outstanding ends, rendered or failed (a submit: its refresh does).
C15_Ends ==
    \A trigger \in Triggers :
        Loading(trigger) ~>
            (last.trigger = trigger /\ last.outcome \in {"rendered", "failed"})

\* C15, third part: an operation does not end both ways. The step that shows
\* the notification of a catch block repaints no view.
C15_NotBoth ==
    [][ErrorShown' => (tbody' = tbody /\ metrics' = metrics /\ canvas' = canvas)]_vars

\* C15, under SpecAnswered: each trigger enters LOADING, every operation that
\* is LOADING ends RENDERED or ERROR provided the backend answers or the
\* transport fails, and none ends in both.
C15_LoadingEndsOneWay == C15_EntersLoading /\ C15_Ends /\ C15_NotBoth

----------------------------------------------------------------------------
(* Properties of the derived views, checked under SpecFirstLoad *)

\* the collection a rendered load received
Loaded == last.body.alerts.array

\* C9: for the collection C just rendered, total = |C|, errorHostCount = the
\* number of distinct hostnames with a record above 80, normalCount = the number
\* of records at or below 80, the status is the warning iff errorHostCount > 0,
\* else normal, each with its own style; the empty C gives 0, 0, 0, normal.
C9_Metrics ==
    last.outcome = "rendered" =>
        LET C == Loaded
            anomalous == {i \in 1..Len(C) : C[i].value > 80}
            hosts == {C[i].hostname : i \in anomalous}
        IN /\ metrics.total = Len(C)
           /\ metrics.errorHosts = Cardinality(hosts)
           /\ metrics.normalCount = Cardinality({i \in 1..Len(C) : C[i].value <= 80})
           /\ metrics.systemStatus = IF hosts # {} THEN "jinggao" ELSE "zhengchang"
           /\ metrics.className = IF hosts # {}
                                  THEN "card-text display-4 text-warning"
                                  ELSE "card-text display-4 text-success"
           /\ C = <<>> =>
                metrics = [total |-> 0, errorHosts |-> 0, normalCount |-> 0,
                           systemStatus |-> "zhengchang",
                           className |-> "card-text display-4 text-success"]

\* two anomalies of one host, one record exactly at the threshold
C9_Witness ==
    /\ last.outcome = "rendered"
    /\ \E i, j, k \in 1..Len(Loaded) :
          /\ i # j
          /\ Loaded[i].value > 80
          /\ Loaded[j].value > 80
          /\ Loaded[i].hostname = Loaded[j].hostname
          /\ Loaded[k].value = 80
    /\ metrics.total = 3
    /\ metrics.errorHosts = 1
    /\ metrics.normalCount = 1
    /\ metrics.systemStatus = "jinggao"

CpuIndices(C) == {i \in 1..Len(C) : C[i].metric = "cpu_usage"}

\* the order of the created_at strings "d t"
Earlier(x, y) == x[1] < y[1] \/ (x[1] = y[1] /\ x[2] < y[2])

\* the place of record i among the cpu_usage records of C in ascending order
\* of created_at, records of equal created_at in their order in C
Rank(C, i) ==
    Cardinality({j \in CpuIndices(C) :
                    \/ Earlier(C[j].created_at, C[i].created_at)
                    \/ (C[j].created_at = C[i].created_at /\ j <= i)})

\* C10: for the collection C just rendered, the CPU trend series has
\* min(10, number of cpu_usage records) entries; entry k is the cpu_usage record
\* at place n - m + k of the stable ascending order by created_at (so the
\* series is the most recent 10, non-decreasing by created_at), its label the
\* time of day and its value the value, in parallel; the empty C gives an
\* empty series.
C10_CpuTrend ==
    last.outcome = "rendered" =>
        LET C == Loaded
            n == Cardinality(CpuIndices(C))
            m == IF n < 10 THEN n ELSE 10
            series == canvas.cpu[1]
        IN /\ Len(series.labels) = m
           /\ Len(series.values) = m
           /\ \A k \in 1..m :
                \E i \in CpuIndices(C) :
                    /\ Rank(C, i) = n - m + k
                    /\ series.values[k] = C[i].value
                    /\ series.labels[k] = <<C[i].created_at[2]>>
           /\ C = <<>> => series.labels = <<>> /\ series.values = <<>>

\* more than ten cpu_usage records, out of order, two of them with the same
\* created_at, and a record of another metric
C10_Witness ==
    /\ last.outcome = "rendered"
    /\ Cardinality(CpuIndices(Loaded)) > 10
    /\ Len(canvas.cpu[1].values) = 10
    /\ \E i, j \in CpuIndices(Loaded) :
          i < j /\ Earlier(Loaded[j].created_at, Loaded[i].created_at)
    /\ \E i, j \in CpuIndices(Loaded) :
          i < j /\ Loaded[i].created_at = Loaded[j].created_at
                /\ Loaded[i].value # Loaded[j].value
    /\ CpuIndices(Loaded) # 1..Len(Loaded)

\* row k of the table is the row of record k of C, with its badge
RowsOfRecords(C) ==
    /\ Len(tbody) = Len(C)
    /\ \A k \in 1..Len(C) :
          /\ "badge" \in DOMAIN tbody[k]
          /\ tbody[k].created_at = C[k].created_at
          /\ tbody[k].hostname = C[k].hostname
          /\ tbody[k].value = C[k].value
          /\ tbody[k].badge = IF C[k].value > 80 THEN "jinggao" ELSE "tishi"

\* C17 as stated: after a render of the collection C, the empty one included,
\* the table holds exactly one row per record of C, in the order of C, with
\* the warning badge iff the value is above 80 and the info badge otherwise,
\* and no other row.
C17_OneRowPerRecord == last.outcome = "rendered" => RowsOfRecords(Loaded)

\* C17 amended: after a render of a collection C that is not empty the table
\* holds exactly one row per record of C, in the order of C, with the warning
\* badge iff the value is above 80 and the info badge otherwise, and no other
\* row; after a render of the empty collection it holds exactly one row, the
\* notice that there is no data, which carries no badge.
C17_RowsOrNoDataRow ==
    last.outcome = "rendered" =>
        IF Loaded = <<>>
        THEN /\ Len(tbody) = 1
             /\ tbody[1] = [colspan |-> 5, text |-> "zanwu gaojing shuju"]
        ELSE RowsOfRecords(Loaded)

\* a collection with records at 79, 80 and 81 was rendered: three rows, the
\* warning badge on the last only, nothing left of the markup
C17_Witness ==
    /\ last.outcome = "rendered"
    /\ Len(Loaded) = 3
    /\ Loaded[1].value = 79
    /\ Loaded[2].value = 80
    /\ Loaded[3].value = 81
    /\ [k \in 1..3 |-> tbody[k].badge] = <<"tishi", "tishi", "jinggao">>

\* the records of C with a value above 80
Above80(C) == {i \in 1..Len(C) : C[i].value > 80}

\* C18 as stated: the identity normalCount + |{records of C with value > 80}|
\* = total is false in general. While the body of a load is awaited, some
\* collection C that it can hold gives metrics for which the identity fails.
C18_IdentityFailsForSome ==
    (pending # <<>> /\ pending[1].await = "json") =>
        \E body \in DeriveBodies :
            LET C == body.alerts.array
            IN updateCoreMetrics(C).normalCount + Cardinality(Above80(C))
                   # updateCoreMetrics(C).total

\* C18 amended: for the collection C just rendered, normalCount + |{records of
\* C with value > 80}| = total; errorHostCount counts distinct hosts and is at
\* most the number of those records, so that normalCount + errorHostCount
\* <= total, where equality can fail.
C18_RecordsPartition ==
    last.outcome = "rendered" =>
        /\ metrics.normalCount + Cardinality(Above80(Loaded)) = metrics.total
        /\ metrics.errorHosts <= Cardinality(Above80(Loaded))
        /\ metrics.normalCount + metrics.errorHosts <= metrics.total

\* two records above 80 of one host and a record at 80 of another: the records
\* partition, and normalCount + errorHostCount is one short of total
C18_Witness ==
    /\ last.outcome = "rendered"
    /\ Cardinality(Above80(Loaded)) = 2
    /\ \E k \in 1..Len(Loaded) : Loaded[k].value = 80
    /\ metrics.total = 3
    /\ metrics.normalCount = 1
    /\ metrics.errorHosts = 1
    /\ metrics.normalCount + metrics.errorHosts # metrics.total


\* C20: rendering leaves the collection as the backend returned it, the same
\* records in the same order (the sort of the cpu_usage records included), and
\* rendering that collection again gives the same table, the same metrics and
\* the same chart series.
C20_RenderKeepsCollection ==
    (last.handler = "refreshAlerts" /\ last.outcome = "rendered") =>
        /\ alertsData = last.body.alerts
        /\ LET again == Render(alertsData)
           IN /\ ~again.threw
              /\ again.alertsData = alertsData
              /\ again.tbody = tbody
              /\ again.metrics = metrics
              /\ again.cpuTrendChart = cpuTrendChart
              /\ again.alertTypeChart = alertTypeChart

\* a collection was rendered whose cpu_usage records came out of time order,
\* with a record of another metric between them
C20_Witness ==
    /\ last.handler = "refreshAlerts"
    /\ last.outcome = "rendered"
    /\ alertsData = last.body.alerts
    /\ \E i, j \in CpuIndices(Loaded) :
          /\ i < j
          /\ Earlier(Loaded[j].created_at, Loaded[i].created_at)
          /\ \E k \in (i + 1)..(j - 1) : k \notin CpuIndices(Loaded)
    /\ cpuTrendChart.labels # <<>>

----------------------------------------------------------------------------
(* Properties of the derived views on odd records, checked under SpecOddLoad *)

\* the label the claim gives a created_at: the time of day after the first
\* space, the string itself when it has no space
RawOrTimeOfDay(s) == IF Len(s) = 1 THEN s ELSE <<s[2]>>

\* C11: a load that received a collection does not fail on a cpu_usage record
\* whose created_at has no space; in the CPU trend series the label of such a
\* record is its created_at as it is, and the label of a record whose
\* created_at has a space is the time of day after the space.
C11_TrendLabels ==
    (last.handler = "refreshAlerts" /\ last.stretch = "json"
       /\ IsArray(last.body.alerts)) =>
        /\ last.outcome = "rendered"
        /\ \A i \in CpuIndices(Loaded) :
              \E k \in 1..Len(canvas.cpu[1].labels) :
                  /\ canvas.cpu[1].values[k] = Loaded[i].value
                  /\ canvas.cpu[1].labels[k] = RawOrTimeOfDay(Loaded[i].created_at)

\* the name the alert type chart gives a metric: the label of a known
\* identifier, any other metric as it is
FormattedName(metric) ==
    IF metric = "cpu_usage" THEN "CPU shiyonglv"
    ELSE IF metric = "mem_usage" THEN "neicun shiyonglv"
    ELSE IF metric = "disk_usage" THEN "cipan shiyonglv"
    ELSE IF metric = "network_in" THEN "ruzhan liuliang"
    ELSE IF metric = "network_out" THEN "chuzhan liuliang"
    ELSE metric

\* the records of C whose formatted metric name is name
Named(C, name) == {i \in 1..Len(C) : FormattedName(C[i].metric) = name}

FirstOf(S) == CHOOSE i \in S : \A j \in S : i <= j

RECURSIVE SumOf(_)
SumOf(s) == IF s = <<>> THEN 0 ELSE Head(s) + SumOf(Tail(s))

\* C12: for the collection C just rendered, the labels of the alert type
\* distribution are the distinct formatted metric names of C (a metric that is
\* none of the five identifiers as it is), each once, in the order in which
\* they first appear in C; values[k] is the number of records named labels[k],
\* the values sum to |C|, and the empty C gives an empty distribution.
C12_AlertTypeDistribution ==
    (last.handler = "refreshAlerts" /\ last.outcome = "rendered") =>
        LET C == Loaded
            labels == canvas.type[1].labels
            values == canvas.type[1].values
        IN /\ {labels[k] : k \in 1..Len(labels)} =
                  {FormattedName(C[i].metric) : i \in 1..Len(C)}
           /\ \A k, l \in 1..Len(labels) :
                  k < l => FirstOf(Named(C, labels[k])) < FirstOf(Named(C, labels[l]))
           /\ Len(values) = Len(labels)
           /\ \A k \in 1..Len(labels) : values[k] = Cardinality(Named(C, labels[k]))
           /\ SumOf(values) = Len(C)
           /\ C = <<>> => labels = <<>> /\ values = <<>>

\* the rows of the table that carry the badge
RowsWith(badge) ==
    {k \in 1..Len(tbody) : "badge" \in DOMAIN tbody[k] /\ tbody[k].badge = badge}

\* C19: after a load is rendered the status card and the table agree: the
\* system status is the warning exactly when some row carries the warning
\* badge, and normalCount is the number of rows that carry the info badge.
C19_StatusAgreesWithTable ==
    (last.handler = "refreshAlerts" /\ last.outcome = "rendered") =>
        /\ (metrics.systemStatus = "jinggao") <=> (RowsWith("jinggao") # {})
        /\ metrics.normalCount = Cardinality(RowsWith("tishi"))

\* C19 for the collections whose records all have a value
C19_AgreesWhenValued ==
    (/\ last.handler = "refreshAlerts"
     /\ last.outcome = "rendered"
     /\ \A i \in 1..Len(Loaded) : HasValue(Loaded[i])) =>
        /\ (metrics.systemStatus = "jinggao") <=> (RowsWith("jinggao") # {})
        /\ metrics.normalCount = Cardinality(RowsWith("tishi"))

====
